---- MODULE Spec2Model ----
(***************************************************************************)
(* Model of generate_shifts (src/src/shift_generate.py): the construction  *)
(* of the shift-scheduling program, its solution by the external solver    *)
(* and the extraction of the two result tables.                            *)
(*                                                                         *)
(* The solver is modelled by its contract: it returns any assignment of    *)
(* the declared variables that satisfies every stored constraint and       *)
(* minimises the stored objective.  The continuous shortage variables are  *)
(* discretised to the integers lowBound..ShortageCap; with integer         *)
(* coverage targets every vertex of the program is integral.               *)
(*                                                                         *)
(* The scheduling horizon range(1, 31) of the source is scaled down to     *)
(* 1..NumDays: the objective and every constraint are separable per        *)
(* (day, shift type), and the solver is modelled by exhaustive search.     *)
(* Employee identifiers in the employees list are pairwise distinct.       *)
(***************************************************************************)
EXTENDS Integers, Sequences, FiniteSets, TLC

\* ---- bounds of the model ------------------------------------------------
MaxEmployees == 2
MaxRequired == 2

\* largest value tried for a (discretised) shortage variable
ShortageCap == MaxRequired + 1

\* ---- program constants ----------------------------------------------------
\* last day of the horizon: range(1, 31) in the source, scaled down
NumDays == 1

ShiftTypes == <<"Morning", "Evening">>

Days == 1..NumDays

TypeSet == {ShiftTypes[i] : i \in 1..Len(ShiftTypes)}

Slots == Days \X TypeSet

\* the slots in the order of the loops: day, then shift type
SlotSeq ==
    LET T == Len(ShiftTypes)
    IN  [i \in 1..(NumDays * T) |->
            <<((i - 1) \div T) + 1, ShiftTypes[((i - 1) % T) + 1]>>]

\* the varValue of a variable the solver gave no value
None == "None"

\* ---- input universe -------------------------------------------------------
EmployeeName(i) == "emp" \o ToString(i)

EmployeeLists == {[i \in 1..n |-> EmployeeName(i)] : n \in 1..MaxEmployees}

\* slots an employee may name: those of the horizon and one beyond it
DesirableSlots == Slots \cup {<<NumDays + 1, "Morning">>}

\* partial mappings: a missing key is a key outside the DOMAIN
PartialFns(K, V) == UNION {[D -> V] : D \in SUBSET K}

RequiredInputs == PartialFns(Days, PartialFns(TypeSet, 0..MaxRequired))

VARIABLES employees, desired_shifts, required_shifts,
          pc, shortages, shifts, objective, constraints,
          status, varValue, shifts_data, pivot_table, shortages_df

vars == <<employees, desired_shifts, required_shifts,
          pc, shortages, shifts, objective, constraints,
          status, varValue, shifts_data, pivot_table, shortages_df>>

inputs == <<employees, desired_shifts, required_shifts>>

\* ---- helpers --------------------------------------------------------------
EmployeeSet == {employees[i] : i \in 1..Len(employees)}

\* f"{day}-{shift_type}"
Label(day, shift_type) == ToString(day) \o "-" \o shift_type

\* variant: desired_shifts.get(employee, set()), which never raises
DesiredLookup_Get(e) ==
    [ok |-> TRUE,
     val |-> IF e \in DOMAIN desired_shifts THEN desired_shifts[e] ELSE {}]

\* desired_shifts[employee]: a dict lookup, which raises KeyError on a missing key
DesiredLookup(e) ==
    IF e \in DOMAIN desired_shifts
    THEN [ok |-> TRUE, val |-> desired_shifts[e]]
    ELSE [ok |-> FALSE]

\* required_shifts[day][shift_type]: two dict lookups, either may raise KeyError
RequiredLookup(day, shift_type) ==
    IF day \in DOMAIN required_shifts
    THEN IF shift_type \in DOMAIN required_shifts[day]
         THEN [ok |-> TRUE, val |-> required_shifts[day][shift_type]]
         ELSE [ok |-> FALSE]
    ELSE [ok |-> FALSE]

\* ---- the linear program ---------------------------------------------------
\* A linear expression (pulp.lpSum) is a pair of term lists, one over the
\* shortage variables (keyed (day, shift_type)) and one over the assignment
\* variables (keyed (employee, day, shift_type)); a term is <<key, coefficient>>.
RECURSIVE Dot(_, _, _)
Dot(terms, val, n) ==
    IF n = 0 THEN 0
    ELSE terms[n][2] * val[terms[n][1]] + Dot(terms, val, n - 1)

\* the coefficient of variable k in a term list
RECURSIVE CoefUpTo(_, _, _)
CoefUpTo(terms, k, n) ==
    IF n = 0 THEN 0
    ELSE (IF terms[n][1] = k THEN terms[n][2] ELSE 0) + CoefUpTo(terms, k, n - 1)

Coef(terms, k) == CoefUpTo(terms, k, Len(terms))

\* the sum of val over the first n keys of a key list
RECURSIVE SumOver(_, _, _)
SumOver(val, keys, n) ==
    IF n = 0 THEN 0 ELSE val[keys[n]] + SumOver(val, keys, n - 1)

Value(expr, v) ==
    Dot(expr.sh, v.sh, Len(expr.sh)) + Dot(expr.x, v.x, Len(expr.x))

Satisfies(c, v) ==
    IF c.sense = ">=" THEN Value(c, v) >= c.rhs ELSE Value(c, v) = c.rhs

\* values a declared variable may take
ValuesOf(var) ==
    IF var.cat = "Binary" THEN {0, 1} ELSE var.lowBound..ShortageCap

\* every assignment of the variables of a declaration dict within their domains
Assignments(decl) ==
    LET U == UNION {ValuesOf(decl[k]) : k \in DOMAIN decl}
    IN  IF \A k \in DOMAIN decl : ValuesOf(decl[k]) = U
        THEN [DOMAIN decl -> U]
        ELSE {f \in [DOMAIN decl -> U] :
                \A k \in DOMAIN decl : f[k] \in ValuesOf(decl[k])}

Candidates == [sh : Assignments(shortages), x : Assignments(shifts)]

Feasible(v) == \A c \in constraints : Satisfies(c, v)

\* the feasible candidates, filtered in two passes: first the assignment
\* part against the constraints that mention no shortage variable, then the
\* whole candidate against the remaining constraints
AssignmentOnly == {c \in constraints : c.sh = <<>>}

FeasibleSet ==
    LET X == {x \in Assignments(shifts) :
                \A c \in AssignmentOnly : Satisfies(c, [sh |-> <<>>, x |-> x])}
    IN  {v \in [sh : Assignments(shortages), x : X] :
            \A c \in constraints \ AssignmentOnly : Satisfies(c, v)}

\* a minimisation is unbounded when a variable without upper bound that no
\* constraint limits from above has a negative objective coefficient
Unbounded ==
    \E k \in DOMAIN shortages :
        /\ shortages[k].cat = "Continuous"
        /\ Coef(objective.sh, k) < 0
        /\ \A c \in constraints :
              Coef(c.sh, k) = 0 \/ (c.sense = ">=" /\ Coef(c.sh, k) > 0)

Minimum(S) == CHOOSE m \in S : \A n \in S : m <= n

\* ---- initial state: the arguments of one call ------------------------------
Init ==
    /\ employees \in EmployeeLists
    /\ desired_shifts \in PartialFns(EmployeeSet, SUBSET DesirableSlots)
    /\ required_shifts \in RequiredInputs
    /\ pc = "declare"
    /\ shortages = <<>>
    /\ shifts = <<>>
    /\ objective = None
    /\ constraints = {}
    /\ status = "Not Solved"
    /\ varValue = None
    /\ shifts_data = <<>>
    /\ pivot_table = None
    /\ shortages_df = None

\* ---- lines 22-28: one shortage variable per slot, one assignment variable
\* per (employee, slot)
ShortageVariable == [lowBound |-> 0, cat |-> "Continuous"]

AssignmentVariable == [cat |-> "Binary"]

DeclareVariables ==
    /\ pc = "declare"
    /\ shortages' = [k \in Slots |-> ShortageVariable]
    /\ shifts' = [k \in EmployeeSet \X Days \X TypeSet |-> AssignmentVariable]
    /\ pc' = "objective"
    /\ UNCHANGED <<inputs, objective, constraints, status, varValue,
                   shifts_data, pivot_table, shortages_df>>

\* ---- lines 32-33: the objective -------------------------------------------
\* the keys in the order of the comprehension of line 33: employee, day, type
EmployeeMajorKeys ==
    LET L == Len(employees)
        T == Len(ShiftTypes)
    IN  [i \in 1..(L * NumDays * T) |->
            <<employees[((i - 1) \div (NumDays * T)) + 1],
              (((i - 1) \div T) % NumDays) + 1,
              ShiftTypes[((i - 1) % T) + 1]>>]

IsDesired(k) == <<k[2], k[3]>> \in DesiredLookup(k[1]).val

DesiredKeys == SelectSeq(EmployeeMajorKeys, IsDesired)

\* variant: the shortage sum left out of the objective
ObjectiveExpr_NoShortagePenalty ==
    [sh |-> <<>>,
     x  |-> [i \in 1..Len(DesiredKeys) |-> <<DesiredKeys[i], 0 - 1>>]]

\* variant: the granted-preference sum left out of the objective
ObjectiveExpr_NoPreferenceReward ==
    [sh |-> [i \in 1..Len(SlotSeq) |-> <<SlotSeq[i], 1>>], x |-> <<>>]

\* variant: the granted-preference sum added instead of subtracted
ObjectiveExpr_PreferencePenalised ==
    [sh |-> [i \in 1..Len(SlotSeq) |-> <<SlotSeq[i], 1>>],
     x  |-> [i \in 1..Len(DesiredKeys) |-> <<DesiredKeys[i], 1>>]]

ObjectiveExpr ==
    [sh |-> [i \in 1..Len(SlotSeq) |-> <<SlotSeq[i], 1>>],
     x  |-> [i \in 1..Len(DesiredKeys) |-> <<DesiredKeys[i], 0 - 1>>]]

AddObjective ==
    /\ pc = "objective"
    /\ IF \E i \in 1..Len(employees) : ~DesiredLookup(employees[i]).ok
       THEN /\ pc' = "KeyError"
            /\ UNCHANGED objective
       ELSE /\ objective' = ObjectiveExpr
            /\ pc' = "coverage"
    /\ UNCHANGED <<inputs, shortages, shifts, constraints, status, varValue,
                   shifts_data, pivot_table, shortages_df>>

\* ---- lines 36-39: coverage with slack, one constraint per slot -------------
\* lpSum(shifts[(employee, day, shift_type)] for employee in employees)
StaffTerms(day, shift_type) ==
    [i \in 1..Len(employees) |-> <<<<employees[i], day, shift_type>>, 1>>]

\* variant: == in place of >=
CoverageConstraint_Equality(day, shift_type) ==
    [sh    |-> << <<<<day, shift_type>>, 1>> >>,
     x     |-> StaffTerms(day, shift_type),
     sense |-> "==",
     rhs   |-> RequiredLookup(day, shift_type).val]

\* variant: > in place of >= (over the integers, >= rhs + 1)
CoverageConstraint_Strict(day, shift_type) ==
    [sh    |-> << <<<<day, shift_type>>, 1>> >>,
     x     |-> StaffTerms(day, shift_type),
     sense |-> ">=",
     rhs   |-> RequiredLookup(day, shift_type).val + 1]

\* variant: the shortage variable left out of the constraint
CoverageConstraint_NoSlack(day, shift_type) ==
    [sh    |-> <<>>,
     x     |-> StaffTerms(day, shift_type),
     sense |-> ">=",
     rhs   |-> RequiredLookup(day, shift_type).val]

CoverageConstraint(day, shift_type) ==
    [sh    |-> << <<<<day, shift_type>>, 1>> >>,
     x     |-> StaffTerms(day, shift_type),
     sense |-> ">=",
     rhs   |-> RequiredLookup(day, shift_type).val]

AddCoverage ==
    /\ pc = "coverage"
    /\ IF \E k \in Slots : ~RequiredLookup(k[1], k[2]).ok
       THEN /\ pc' = "KeyError"
            /\ UNCHANGED constraints
       ELSE /\ constraints' = constraints \cup
                 {CoverageConstraint(k[1], k[2]) : k \in Slots}
            /\ pc' = "lock"
    /\ UNCHANGED <<inputs, shortages, shifts, objective, status, varValue,
                   shifts_data, pivot_table, shortages_df>>

\* ---- lines 42-46: no assignment outside the desired shifts -----------------
LockConstraint(k) ==
    [sh |-> <<>>, x |-> << <<k, 1>> >>, sense |-> "==", rhs |-> 0]

\* variant: the loop of lines 42-46 left out
LockedKeys_None == {}

LockedKeys ==
    {k \in DOMAIN shifts : <<k[2], k[3]>> \notin DesiredLookup(k[1]).val}

AddPreferenceLock ==
    /\ pc = "lock"
    /\ constraints' = constraints \cup {LockConstraint(k) : k \in LockedKeys}
    /\ pc' = "solve"
    /\ UNCHANGED <<inputs, shortages, shifts, objective, status, varValue,
                   shifts_data, pivot_table, shortages_df>>

\* ---- line 49: prob.solve() -------------------------------------------------
NoValues ==
    [sh |-> [k \in DOMAIN shortages |-> None], x |-> [k \in DOMAIN shifts |-> None]]

Solve ==
    /\ pc = "solve"
    /\ \E F \in {FeasibleSet} :
           IF F = {}
           THEN /\ status' = "Infeasible"
                /\ varValue' = NoValues
           ELSE IF Unbounded
           THEN /\ status' = "Unbounded"
                /\ varValue' = NoValues
           ELSE /\ status' = "Optimal"
                /\ \E m \in {Minimum({Value(objective, v) : v \in F})} :
                      varValue' \in {v \in F : Value(objective, v) = m}
    /\ pc' = "extract"
    /\ UNCHANGED <<inputs, shortages, shifts, objective, constraints,
                   shifts_data, pivot_table, shortages_df>>

\* ---- lines 52-58: the assignment table -------------------------------------
\* shifts.items() in insertion order: day, then shift type, then employee
ShiftKeySeq ==
    LET L == Len(employees)
        T == Len(ShiftTypes)
    IN  [i \in 1..(NumDays * T * L) |->
            <<employees[((i - 1) % L) + 1],
              ((i - 1) \div (T * L)) + 1,
              ShiftTypes[(((i - 1) \div L) % T) + 1]>>]

\* value.varValue != 0; None != 0 holds
NonZero(value) == IF status = "Optimal" THEN value # 0 ELSE TRUE

ShiftRecord(k) ==
    [Employee |-> k[1], DayShift |-> Label(k[2], k[3]), Assigned |-> varValue.x[k]]

ShiftsData ==
    LET all  == [i \in 1..Len(ShiftKeySeq) |-> ShiftRecord(ShiftKeySeq[i])]
        Keep(r) == NonZero(r.Assigned)
    IN  SelectSeq(all, Keep)

\* pivot_table(index='Employee', columns='Day-Shift', values='Assigned',
\* fill_value=0): rows and columns are the values present in the records
\* (none for an empty frame); each (row, column) pair has at most one record
PivotTable(data) ==
    LET recs == {data[i] : i \in 1..Len(data)}
        rows == {r.Employee : r \in recs}
        cols == {r.DayShift : r \in recs}
        Cell(e, l) ==
            LET m == {r \in recs : r.Employee = e /\ r.DayShift = l}
            IN  IF m = {} THEN 0 ELSE (CHOOSE r \in m : TRUE).Assigned
    IN  [e \in rows |-> [l \in cols |-> Cell(e, l)]]

ExtractShifts ==
    /\ pc = "extract"
    /\ shifts_data' = ShiftsData
    /\ pivot_table' = PivotTable(ShiftsData)
    /\ pc' = "shortage"
    /\ UNCHANGED <<inputs, shortages, shifts, objective, constraints, status,
                   varValue, shortages_df>>

\* ---- lines 61-64: the shortage table and the return ------------------------
\* variant: the filter on non-zero values left out
ShortagesDf_AllSlots ==
    [l \in {Label(k[1], k[2]) : k \in DOMAIN shortages} |->
        varValue.sh[CHOOSE k \in DOMAIN shortages : Label(k[1], k[2]) = l]]

ShortagesDf ==
    LET kept == {k \in DOMAIN shortages : NonZero(varValue.sh[k])}
    IN  [l \in {Label(k[1], k[2]) : k \in kept} |->
            varValue.sh[CHOOSE k \in kept : Label(k[1], k[2]) = l]]

ExtractShortages ==
    /\ pc = "shortage"
    /\ shortages_df' = ShortagesDf
    /\ pc' = "done"
    /\ UNCHANGED <<inputs, shortages, shifts, objective, constraints, status,
                   varValue, shifts_data, pivot_table>>

Next ==
    \/ DeclareVariables
    \/ AddObjective
    \/ AddCoverage
    \/ AddPreferenceLock
    \/ Solve
    \/ ExtractShifts
    \/ ExtractShortages

Spec == Init /\ [][Next]_vars

\* ==== properties ============================================================
Returned == pc = "done"

Solved == pc \in {"extract", "shortage", "done"}

Max(a, b) == IF a >= b THEN a ELSE b

Req(k) == required_shifts[k[1]][k[2]]

Assigned(e, k) == varValue.x[<<e, k[1], k[2]>>]

Shortage(k) == varValue.sh[k]

\* employees whose desired set holds slot k
Desiring(k) == {e \in EmployeeSet : k \in desired_shifts[e]}

\* number of employees assigned to slot k
NumAssigned(k) == Cardinality({e \in EmployeeSet : Assigned(e, k) # 0})

DesiredKeyMissing == \E e \in EmployeeSet : e \notin DOMAIN desired_shifts

RequiredKeyMissing ==
    \E d \in Days :
        \/ d \notin DOMAIN required_shifts
        \/ \E t \in TypeSet : t \notin DOMAIN required_shifts[d]

TotalShortage(v) == SumOver(v.sh, SlotSeq, Len(SlotSeq))

Granted(v) ==
    Cardinality({k \in DOMAIN v.x :
                    <<k[2], k[3]>> \in desired_shifts[k[1]] /\ v.x[k] = 1})

\* C1: in the returned solution an employee is assigned no slot outside their
\* desired set (value 0, and no record of the assignment table names it); an
\* employee with an empty desired set is assigned nothing.
C1_PreferenceLock ==
    Returned =>
        \A e \in EmployeeSet : \A k \in Slots :
            k \notin desired_shifts[e] =>
                /\ Assigned(e, k) = 0
                /\ \A i \in 1..Len(shifts_data) :
                      ~(/\ shifts_data[i].Employee = e
                        /\ shifts_data[i].DayShift = Label(k[1], k[2]))

C1_Witness ==
    /\ Returned
    /\ \E e \in EmployeeSet : desired_shifts[e] = {}
    /\ \E e \in EmployeeSet : \E k \in Slots : Assigned(e, k) = 1
    /\ \E k \in Slots : Shortage(k) > 0

\* C2 (as stated): in the returned solution, for every slot, the number of
\* employees assigned plus the shortage equals the required coverage exactly.
C2_ExactCoverage ==
    Returned => \A k \in Slots : NumAssigned(k) + Shortage(k) = Req(k)

\* C2 (amended): assigned plus shortage equals the required coverage for every
\* slot that at most required-coverage many employees desire; a slot that more
\* employees desire is over-staffed: all of them are assigned, the shortage is 0.
C2_CoverageAmended ==
    Returned =>
        \A k \in Slots :
            IF Cardinality(Desiring(k)) <= Req(k)
            THEN NumAssigned(k) + Shortage(k) = Req(k)
            ELSE /\ NumAssigned(k) = Cardinality(Desiring(k))
                 /\ Shortage(k) = 0
                 /\ NumAssigned(k) + Shortage(k) > Req(k)

C2_Witness ==
    /\ Returned
    /\ \E k \in Slots :
          /\ Req(k) = 1
          /\ Cardinality(Desiring(k)) = 2
          /\ NumAssigned(k) = 2
          /\ Shortage(k) = 0
    /\ \E k \in Slots : Req(k) > 0 /\ Cardinality(Desiring(k)) < Req(k)

\* C3: in the returned solution the shortage of every slot is the unmet
\* headcount max(0, required coverage - number of employees assigned).
C3_ShortageIsDeficit ==
    Returned => \A k \in Slots : Shortage(k) = Max(0, Req(k) - NumAssigned(k))

C3_Witness ==
    /\ Returned
    /\ \E k \in Slots : Req(k) - NumAssigned(k) > 0 /\ Shortage(k) < ShortageCap
    /\ \E k \in Slots : Req(k) > 0 /\ NumAssigned(k) >= Req(k)

\* C4: the program built from inputs that hold every looked-up key is
\* feasible (no assignment, every shortage equal to its required coverage,
\* satisfies every constraint), its objective is bounded below, and the solve
\* ends optimal.
SlackPoint == [sh |-> [k \in Slots |-> Req(k)], x |-> [k \in DOMAIN shifts |-> 0]]

C4_FeasibleAndBounded ==
    /\ pc = "solve" =>
          /\ Feasible(SlackPoint)
          /\ ~Unbounded
          /\ \A k \in Slots : Coef(objective.sh, k) >= 0 /\ shortages[k].lowBound >= 0
          /\ \A v \in FeasibleSet :
                Value(objective, v) >= 0 - Cardinality(DOMAIN shifts)
    /\ Solved => status = "Optimal"

C4_Witness ==
    /\ pc = "extract"
    /\ status = "Optimal"
    /\ \E k \in Slots : Req(k) > 0 /\ Desiring(k) = {}
    /\ Value(objective, varValue) < 0

\* C5 (as stated): the assignment table has a row for every employee of the
\* employees list, and each of its cells is the solved assignment value.
C5_RowPerEmployee ==
    Returned =>
        \A e \in EmployeeSet :
            /\ e \in DOMAIN pivot_table
            /\ \A k \in Slots :
                  Label(k[1], k[2]) \in DOMAIN pivot_table[e] =>
                      pivot_table[e][Label(k[1], k[2])] = Assigned(e, k)

\* C6: when every slot's required coverage is 0, every shortage of the
\* returned solution is 0 and the shortage table has no rows.
C6_ZeroRequired ==
    (Returned /\ \A k \in Slots : Req(k) = 0) =>
        /\ \A k \in Slots : Shortage(k) = 0
        /\ DOMAIN shortages_df = {}

C6_Witness ==
    /\ Returned
    /\ \A k \in Slots : Req(k) = 0
    /\ Len(employees) = MaxEmployees
    /\ \E k \in Slots : Desiring(k) # {}
    /\ \E k \in Slots : Desiring(k) = {}

\* C7: when desired_shifts lacks the key of an employee of the list, or
\* required_shifts lacks a day or a shift type of a day, the call ends in a
\* KeyError while the program is built: the step that looks the key up fails,
\* the solver is never invoked and no table is produced.
C7_KeyError ==
    [][(DesiredKeyMissing \/ RequiredKeyMissing) =>
          /\ pc' \in {"objective", "coverage", "KeyError"}
          /\ (pc = "objective" /\ DesiredKeyMissing) => pc' = "KeyError"
          /\ pc = "coverage" => pc' = "KeyError"
          /\ status' = "Not Solved"
          /\ varValue' = None
          /\ pivot_table' = None
          /\ shortages_df' = None]_vars

C7_Witness ==
    /\ pc = "KeyError"
    /\ ~DesiredKeyMissing
    /\ \E d \in Days : d \in DOMAIN required_shifts /\ DOMAIN required_shifts[d] # TypeSet
    /\ constraints = {}
    /\ status = "Not Solved"

\* C8: the shortage table has a row labelled "{day}-{shift_type}" exactly for
\* the slots of non-zero solved shortage, carrying that value; the records of
\* the assignment table are exactly the (employee, label, value) of the
\* non-zero solved assignment values.
C8_NonZeroRows ==
    Returned =>
        /\ DOMAIN shortages_df \subseteq {Label(k[1], k[2]) : k \in Slots}
        /\ \A k \in Slots :
              /\ Label(k[1], k[2]) \in DOMAIN shortages_df <=> Shortage(k) # 0
              /\ Shortage(k) # 0 => shortages_df[Label(k[1], k[2])] = Shortage(k)
        /\ \A e \in EmployeeSet : \A k \in Slots :
              (\E i \in 1..Len(shifts_data) :
                  shifts_data[i] = [Employee |-> e,
                                    DayShift |-> Label(k[1], k[2]),
                                    Assigned |-> Assigned(e, k)])
              <=> Assigned(e, k) # 0
        /\ Len(shifts_data) =
              Cardinality({k \in DOMAIN shifts : varValue.x[k] # 0})

C8_Witness ==
    /\ Returned
    /\ \E k \in Slots : Shortage(k) # 0 /\ Label(k[1], k[2]) \in DOMAIN shortages_df
    /\ \E k \in Slots : Shortage(k) = 0 /\ Label(k[1], k[2]) \notin DOMAIN shortages_df
    /\ \E e \in EmployeeSet : \E k \in Slots : Assigned(e, k) # 0
    /\ \E e \in EmployeeSet : \E k \in Slots : Assigned(e, k) = 0

\* C9: the returned solution is a function of the inputs: an employee is
\* assigned exactly the slots of the horizon in their desired set, whatever
\* the required coverage, and the shortage of a slot is
\* max(0, required coverage - number of employees desiring the slot).
C9_Determined ==
    Solved =>
        /\ \A e \in EmployeeSet : \A k \in Slots :
              Assigned(e, k) = IF k \in desired_shifts[e] THEN 1 ELSE 0
        /\ \A k \in Slots :
              Shortage(k) = Max(0, Req(k) - Cardinality(Desiring(k)))

C9_Witness ==
    /\ Returned
    /\ \E e \in EmployeeSet : desired_shifts[e] \ Slots # {}
    /\ \E k \in Slots : Req(k) = 0 /\ NumAssigned(k) > 0
    /\ \E k \in Slots : Req(k) > 0 /\ NumAssigned(k) > Req(k)

\* C10: the solution the solver returns attains, among all feasible points of
\* the program, both the least total shortage and the largest number of
\* granted desired shifts.
C10_NoConflict ==
    pc = "extract" =>
        \A v \in FeasibleSet :
            /\ TotalShortage(varValue) <= TotalShortage(v)
            /\ Granted(varValue) >= Granted(v)

C10_Witness ==
    /\ pc = "extract"
    /\ TotalShortage(varValue) > 0
    /\ Granted(varValue) > 0
    /\ \E k \in Slots : NumAssigned(k) > Req(k)

====
